---- MODULE Spec2Model ----
(***************************************************************************)
(* Model of app.py, the Flask backend of the movie recommender: the        *)
(* in-memory catalogue filled by load_movies, the /search autocomplete     *)
(* handler and the /recommend handler that validates the weights,          *)
(* resolves the base movie, runs the recommender executable and parses     *)
(* its comma-separated output.                                             *)
(*                                                                         *)
(* Text is a sequence of one-character strings.  A real number (rating) is *)
(* an exact decimal [m, e] standing for m / 10^e, with no trailing zero in *)
(* the fraction.  An optional value (a missing JSON key, a local that is   *)
(* None) is a sequence of length 0 or 1.                                   *)
(***************************************************************************)
EXTENDS Integers, Sequences, FiniteSets, TLC

VARIABLES movies, movie_by_id, movie_by_name, op, req, resp, run, emitted, parsed

vars == <<movies, movie_by_id, movie_by_name, op, req, resp, run, emitted, parsed>>

(***************************************************************************)
(* Bounds of the model.                                                    *)
(***************************************************************************)
MaxMovies == 3

MaxFileRows == 2

MaxSearchMovies == 12

MaxSearchFileRows == 3

MaxEmitted == 2

(***************************************************************************)
(* Python text primitives.                                                 *)
(***************************************************************************)
Whitespace == {" ", "\n"}

DigitChars == <<"0", "1", "2", "3", "4", "5", "6", "7", "8", "9">>

IsDigit(c) == \E d \in 1..10 : DigitChars[d] = c

DigitVal(c) == (CHOOSE d \in 1..10 : DigitChars[d] = c) - 1

LowerChar(c) == IF c = "A" THEN "a" ELSE IF c = "B" THEN "b" ELSE c

Lower(s) == [i \in 1..Len(s) |-> LowerChar(s[i])]

RECURSIVE LStrip(_)
LStrip(s) == IF s # <<>> /\ Head(s) \in Whitespace THEN LStrip(Tail(s)) ELSE s

RECURSIVE RStrip(_)
RStrip(s) ==
    IF s # <<>> /\ s[Len(s)] \in Whitespace THEN RStrip(SubSeq(s, 1, Len(s) - 1)) ELSE s

Strip(s) == RStrip(LStrip(s))

\* Python's "needle in hay" on text
Contains(needle, hay) ==
    \E i \in 0..(Len(hay) - Len(needle)) : SubSeq(hay, i + 1, i + Len(needle)) = needle

RECURSIVE Split(_, _)
Split(s, sep) ==
    IF \E i \in 1..Len(s) : s[i] = sep
    THEN LET i == CHOOSE k \in 1..Len(s) : s[k] = sep /\ \A j \in 1..(k - 1) : s[j] # sep
         IN  <<SubSeq(s, 1, i - 1)>> \o Split(SubSeq(s, i + 1, Len(s)), sep)
    ELSE <<s>>

RECURSIVE DigitsVal(_)
DigitsVal(s) == IF s = <<>> THEN 0 ELSE 10 * DigitsVal(SubSeq(s, 1, Len(s) - 1)) + DigitVal(s[Len(s)])

AllDigits(s) == \A i \in 1..Len(s) : IsDigit(s[i])

\* int(text): surrounding whitespace ignored, optional sign, at least one
\* digit; anything else raises ValueError (ok = FALSE)
ParseInt(s) ==
    LET t    == Strip(s)
        neg  == t # <<>> /\ Head(t) = "-"
        body == IF neg THEN Tail(t) ELSE t
    IN  IF body # <<>> /\ AllDigits(body)
        THEN [ok |-> TRUE, v |-> IF neg THEN 0 - DigitsVal(body) ELSE DigitsVal(body)]
        ELSE [ok |-> FALSE, v |-> 0]

RECURSIVE Normalize(_)
Normalize(r) == IF r.e > 0 /\ r.m % 10 = 0 THEN Normalize([m |-> r.m \div 10, e |-> r.e - 1]) ELSE r

\* float(text) for plain decimal notation: digits with at most one point
\* and at least one digit; anything else raises ValueError (ok = FALSE)
ParseFloat(s) ==
    LET t     == Strip(s)
        neg   == t # <<>> /\ Head(t) = "-"
        body  == IF neg THEN Tail(t) ELSE t
        parts == Split(body, ".")
        ip    == parts[1]
        fp    == IF Len(parts) = 2 THEN parts[2] ELSE <<>>
        mag   == DigitsVal(ip \o fp)
    IN  IF Len(parts) <= 2 /\ AllDigits(ip) /\ AllDigits(fp) /\ Len(ip) + Len(fp) > 0
        THEN [ok |-> TRUE,
              v  |-> Normalize([m |-> IF neg THEN 0 - mag ELSE mag, e |-> Len(fp)])]
        ELSE [ok |-> FALSE, v |-> [m |-> 0, e |-> 0]]

RECURSIVE NatStr(_)
NatStr(n) == IF n < 10 THEN <<DigitChars[n + 1]>> ELSE NatStr(n \div 10) \o <<DigitChars[(n % 10) + 1]>>

\* str(n) of an integer
Str(n) == IF n < 0 THEN <<"-">> \o NatStr(0 - n) ELSE NatStr(n)

(***************************************************************************)
(* The catalogue: load_movies.                                             *)
(***************************************************************************)
\* dict[key] = value
DictPut(d, key, value) ==
    [k \in (DOMAIN d) \cup {key} |-> IF k = key THEN value ELSE d[k]]

EmptyDict == [k \in {} |-> 0]

\* the body of the "for row in reader" loop for one row; ok = FALSE when
\* int() or float() raises, which leaves the three globals as they were
\* before this row
LoadRow(st, row) ==
    LET pid == ParseInt(row.id)
        pr  == ParseFloat(row.rating)
    IN  IF ~pid.ok \/ ~pr.ok
        THEN [ok |-> FALSE, st |-> st]
        ELSE LET movie == [id |-> pid.v, title |-> row.title, genre |-> row.genre,
                           rating |-> pr.v, director |-> row.director]
             IN  [ok |-> TRUE,
                  st |-> [movies        |-> Append(st.movies, movie),
                          movie_by_id   |-> DictPut(st.movie_by_id, movie.id, movie),
                          movie_by_name |-> DictPut(st.movie_by_name, Lower(movie.title), movie)]]

\* the loop over the rows; the except clause ends it at the first row that
\* raises, keeping what the earlier rows added
RECURSIVE LoadRows(_, _)
LoadRows(st, rows) ==
    IF rows = <<>> THEN st
    ELSE LET r == LoadRow(st, Head(rows))
         IN  IF r.ok THEN LoadRows(r.st, Tail(rows)) ELSE r.st

Idle == [kind |-> "idle"]

NoRun == [kind |-> "none"]

load_movies(file, limit) ==
    /\ op = "idle"
    /\ LET st == LoadRows([movies |-> movies, movie_by_id |-> movie_by_id,
                           movie_by_name |-> movie_by_name], file)
       IN  /\ Len(st.movies) <= limit
           /\ movies' = st.movies
           /\ movie_by_id' = st.movie_by_id
           /\ movie_by_name' = st.movie_by_name
    /\ UNCHANGED <<op, req, resp, run, emitted, parsed>>

(***************************************************************************)
(* /search                                                                 *)
(***************************************************************************)
SearchLimit == 10

\* request.args.get(key, '') and data.get(key, default)
Get(opt, default) == IF opt = <<>> THEN default ELSE opt[1]

Public(movie) ==
    [id |-> movie.id, title |-> movie.title, genre |-> movie.genre,
     rating |-> movie.rating, director |-> movie.director]

\* SearchLoop without the break at SearchLimit results
RECURSIVE SearchLoop_NoBreak(_, _, _)
SearchLoop_NoBreak(query, i, results) ==
    IF i > Len(movies) THEN results
    ELSE IF Contains(query, Lower(movies[i].title))
         THEN SearchLoop_NoBreak(query, i + 1, Append(results, Public(movies[i])))
         ELSE SearchLoop_NoBreak(query, i + 1, results)

\* the "for movie in movies" loop of search, from index i with the results
\* collected so far
RECURSIVE SearchLoop(_, _, _)
SearchLoop(query, i, results) ==
    IF i > Len(movies) THEN results
    ELSE IF Contains(query, Lower(movies[i].title))
         THEN LET r == Append(results, Public(movies[i]))
              IN  IF Len(r) >= SearchLimit THEN r ELSE SearchLoop(query, i + 1, r)
         ELSE SearchLoop(query, i + 1, results)

SearchResults(name) ==
    LET query == Strip(Lower(Get(name, <<>>)))
    IN  IF query = <<>> THEN <<>> ELSE SearchLoop(query, 1, <<>>)

search(name) ==
    /\ op = "idle"
    /\ op' = "search"
    /\ req' = [name |-> name]
    /\ resp' = [status |-> 200, results |-> SearchResults(name)]
    /\ UNCHANGED <<movies, movie_by_id, movie_by_name, run, emitted, parsed>>

\* the response is returned to the client; the server takes the next request
Deliver ==
    /\ op \in {"search", "recommend"}
    /\ op' = "idle"
    /\ req' = Idle
    /\ resp' = Idle
    /\ run' = NoRun
    /\ UNCHANGED <<movies, movie_by_id, movie_by_name, emitted, parsed>>

(***************************************************************************)
(* The recommender executable (recommender.c is not part of the sources;   *)
(* this is the engine as its specification describes it).                  *)
(***************************************************************************)
K == 5

RatingSpan == 10

RECURSIVE Pow10(_)
Pow10(n) == IF n <= 0 THEN 1 ELSE 10 * Pow10(n - 1)

Abs(x) == IF x < 0 THEN 0 - x ELSE x

Max(a, b) == IF a >= b THEN a ELSE b

RECURSIVE PadDigits(_, _)
PadDigits(n, width) ==
    IF width = 0 THEN <<>> ELSE PadDigits(n \div 10, width - 1) \o <<DigitChars[(n % 10) + 1]>>

\* decimal rendering of a rating, always with a fractional part
FormatRating(r) ==
    LET mag  == Abs(r.m)
        sign == IF r.m < 0 THEN <<"-">> ELSE <<>>
    IN  IF r.e = 0 THEN sign \o NatStr(mag) \o <<".", "0">>
        ELSE sign \o NatStr(mag \div Pow10(r.e)) \o <<".">> \o PadDigits(mag % Pow10(r.e), r.e)

\* one entry per line: id,title,genre,rating,director
EncodeLine(e) ==
    Str(e.id) \o <<",">> \o e.title \o <<",">> \o e.genre \o <<",">>
        \o FormatRating(e.rating) \o <<",">> \o e.director \o <<"\n">>

RECURSIVE Encode(_)
Encode(entries) == IF entries = <<>> THEN <<>> ELSE EncodeLine(Head(entries)) \o Encode(Tail(entries))

RECURSIVE MaxScale(_)
MaxScale(catalog) == IF catalog = <<>> THEN 0 ELSE Max(Head(catalog).rating.e, MaxScale(Tail(catalog)))

\* the weighted sum of the three similarities, times RatingSpan * 10^scale
\* so that it stays an integer
Score(ref, c, w, scale) ==
    LET unit == RatingSpan * Pow10(scale)
        at(r) == r.m * Pow10(scale - r.e)
        diff == Abs(at(ref.rating) - at(c.rating))
    IN  w[1] * (IF c.genre = ref.genre THEN unit ELSE 0)
        + w[2] * Max(0, unit - diff)
        + w[3] * (IF c.director = ref.director THEN unit ELSE 0)

RECURSIVE Filter(_, _)
Filter(catalog, id) ==
    IF catalog = <<>> THEN <<>>
    ELSE IF Head(catalog).id = id THEN Filter(Tail(catalog), id)
         ELSE <<Head(catalog)>> \o Filter(Tail(catalog), id)

Remove(s, i) == SubSeq(s, 1, i - 1) \o SubSeq(s, i + 1, Len(s))

\* stable sort by descending score, cut to k entries
RECURSIVE Rank(_, _, _, _, _)
Rank(cands, ref, w, scale, k) ==
    IF cands = <<>> \/ k = 0 THEN <<>>
    ELSE LET best == CHOOSE i \in 1..Len(cands) :
                        /\ \A j \in 1..Len(cands) :
                              Score(ref, cands[j], w, scale) <= Score(ref, cands[i], w, scale)
                        /\ \A j \in 1..(i - 1) :
                              Score(ref, cands[j], w, scale) < Score(ref, cands[i], w, scale)
         IN  <<cands[best]>> \o Rank(Remove(cands, best), ref, w, scale, k - 1)

NoSuchId == "movie id not found"

\* recommender.exe <id> <genre_weight> <rating_weight> <director_weight>
\* over the catalogue: exit status, standard output, standard error
Engine(argv, catalog) ==
    LET id == ParseInt(argv[1])
        w  == <<ParseInt(argv[2]).v, ParseInt(argv[3]).v, ParseInt(argv[4]).v>>
    IN  IF ~id.ok \/ ~(\E i \in 1..Len(catalog) : catalog[i].id = id.v)
        THEN [returncode |-> 1, stdout |-> <<>>, stderr |-> NoSuchId]
        ELSE LET ref == catalog[CHOOSE i \in 1..Len(catalog) :
                                    /\ catalog[i].id = id.v
                                    /\ \A j \in 1..(i - 1) : catalog[j].id # id.v]
             IN  [returncode |-> 0,
                  stdout |-> Encode(Rank(Filter(catalog, id.v), ref, w, MaxScale(catalog), K)),
                  stderr |-> ""]

(***************************************************************************)
(* /recommend                                                              *)
(***************************************************************************)
DefaultWeight == 5

MinWeight == 0

MaxWeight == 10

Num(m, e) == [kind |-> "num", r |-> Normalize([m |-> m, e |-> e])]

Text(s) == [kind |-> "text", s |-> s]

\* int(x) of a JSON value: a number is truncated toward zero, text is
\* parsed; ok = FALSE when int() raises ValueError
IntOf(x) ==
    IF x.kind = "num"
    THEN [ok |-> TRUE,
          v  |-> IF x.r.m >= 0 THEN x.r.m \div Pow10(x.r.e) ELSE 0 - ((0 - x.r.m) \div Pow10(x.r.e))]
    ELSE ParseInt(x.s)

\* Validate without the lower bound
Validate_NoLowerBound(gw, rw, dw) ==
    IF gw > MaxWeight THEN "genre"
    ELSE IF rw > MaxWeight THEN "rating"
    ELSE IF dw > MaxWeight THEN "director"
    ELSE ""

\* the validation loop: the first dimension out of range, or "" when none
Validate(gw, rw, dw) ==
    IF gw < MinWeight \/ gw > MaxWeight THEN "genre"
    ELSE IF rw < MinWeight \/ rw > MaxWeight THEN "rating"
    ELSE IF dw < MinWeight \/ dw > MaxWeight THEN "director"
    ELSE ""

\* Resolve without the exact lookup: the partial-match loop alone
Resolve_PartialOnly(movie_name) ==
    LET key == Lower(movie_name)
    IN  IF \E i \in 1..Len(movies) : Contains(key, Lower(movies[i].title))
        THEN <<movies[CHOOSE i \in 1..Len(movies) :
                         /\ Contains(key, Lower(movies[i].title))
                         /\ \A j \in 1..(i - 1) : ~Contains(key, Lower(movies[j].title))]>>
        ELSE <<>>

\* movie_by_name.get(name.lower()), then the partial-match loop; the
\* resolved movie as an optional value
Resolve(movie_name) ==
    LET key == Lower(movie_name)
    IN  IF key \in DOMAIN movie_by_name THEN <<movie_by_name[key]>>
        ELSE IF \E i \in 1..Len(movies) : Contains(key, Lower(movies[i].title))
             THEN <<movies[CHOOSE i \in 1..Len(movies) :
                              /\ Contains(key, Lower(movies[i].title))
                              /\ \A j \in 1..(i - 1) : ~Contains(key, Lower(movies[j].title))]>>
             ELSE <<>>

\* EngineId taking the id of the first catalogue entry
EngineId_First(movie) == movies[1].id

EngineId(movie) == movie.id

\* the loop over the lines of the engine's output; ok = FALSE when int() or
\* float() raises on a line
RECURSIVE ParseLines(_, _)
ParseLines(lines, recs) ==
    IF lines = <<>> THEN [ok |-> TRUE, recs |-> recs]
    ELSE LET line  == Head(lines)
             parts == Split(line, ",")
         IN  IF line = <<>> THEN ParseLines(Tail(lines), recs)
             ELSE IF Len(parts) >= 5
                  THEN LET id == ParseInt(parts[1])
                           rt == ParseFloat(parts[4])
                       IN  IF ~id.ok \/ ~rt.ok THEN [ok |-> FALSE, recs |-> <<>>]
                           ELSE ParseLines(Tail(lines),
                                    Append(recs, [id |-> id.v, title |-> parts[2],
                                                  genre |-> parts[3], rating |-> rt.v,
                                                  director |-> parts[5]]))
                  ELSE ParseLines(Tail(lines), recs)

ParseOutput(stdout) == ParseLines(Split(Strip(stdout), "\n"), <<>>)

Error(status, error, dim, msg) ==
    [status |-> status, error |-> error, dim |-> dim, msg |-> msg,
     base_movie |-> <<>>, recommendations |-> <<>>, weights |-> <<>>]

Success(movie, recs, w) ==
    [status |-> 200, error |-> "", dim |-> "", msg |-> "",
     base_movie |-> <<Public(movie)>>, recommendations |-> <<recs>>, weights |-> <<w>>]

Trace(steps, w, movie, launches, outcome) ==
    [kind |-> "recommend", steps |-> steps, weights |-> w, movie |-> movie,
     launches |-> launches, outcome |-> outcome]

\* AfterEngine without the check of the exit status
AfterEngine_NoStatusCheck(movie, w, out) ==
    IF out.kind = "timeout" THEN Error(500, "Timeout", "", "Recommendation engine timed out")
    ELSE LET p == ParseOutput(out.stdout)
         IN  IF ~p.ok THEN Error(500, "RunError", "", "Error running recommender")
             ELSE Success(movie, p.recs, w)

\* what the handler does once the engine has been launched
AfterEngine(movie, w, out) ==
    IF out.kind = "timeout" THEN Error(500, "Timeout", "", "Recommendation engine timed out")
    ELSE IF out.returncode # 0 THEN Error(500, "RecommenderError", "", out.stderr)
    ELSE LET p == ParseOutput(out.stdout)
         IN  IF ~p.ok THEN Error(500, "RunError", "", "Error running recommender")
             ELSE Success(movie, p.recs, w)

\* what the process started by subprocess.run does in environment env
RunEngine(argv, env) ==
    LET e == Engine(argv, movies)
    IN  IF env.timeout THEN [kind |-> "timeout", returncode |-> 0, stdout |-> <<>>, stderr |-> ""]
        ELSE IF env.crash
             THEN [kind |-> "exit", returncode |-> 1,
                   stdout |-> IF env.partial THEN e.stdout ELSE <<>>, stderr |-> env.stderr]
             ELSE [kind |-> "exit", returncode |-> e.returncode,
                   stdout |-> e.stdout, stderr |-> e.stderr]

\* the environments subprocess.run and os.path.exists can meet
Env(exists, timeout, crash, partial, stderr) ==
    [exists |-> exists, timeout |-> timeout, crash |-> crash, partial |-> partial,
     stderr |-> stderr]

EngineEnvs ==
    {Env(TRUE, FALSE, FALSE, FALSE, ""), Env(FALSE, FALSE, FALSE, FALSE, ""),
     Env(TRUE, TRUE, FALSE, FALSE, "")}
    \cup {Env(TRUE, FALSE, TRUE, p, m) : p \in BOOLEAN, m \in {"cannot open movies.txt", "bad arguments"}}

\* the handler once the reference is resolved: the check that the
\* executable exists, subprocess.run and the parsing of its output
Launch(movie, w, env) ==
    IF ~env.exists
    THEN [resp |-> Error(500, "NotCompiled", "", "Recommender engine not compiled"),
          run  |-> Trace(<<"convert", "validate", "resolve">>, <<w>>, <<movie>>, <<>>, <<>>)]
    ELSE LET argv == <<Str(EngineId(movie)), Str(w[1]), Str(w[2]), Str(w[3])>>
             out  == RunEngine(argv, env)
         IN  [resp |-> AfterEngine(movie, w, out),
              run  |-> Trace(<<"convert", "validate", "resolve", "engine">>,
                             <<w>>, <<movie>>, <<argv>>, <<out>>)]

Done(response, trace) == [done |-> TRUE, resp |-> response, run |-> trace]

\* the handler from the converted weights on, up to the resolution of the
\* reference
Resolved(r, w) ==
    LET movie_name == Strip(Get(r.movie_name, <<>>))
        movie      == Resolve(movie_name)
    IN  IF movie = <<>>
        THEN Done(Error(404, "NotFound", "", "not found"),
                  Trace(<<"convert", "validate", "resolve">>, <<w>>, <<>>, <<>>, <<>>))
        ELSE [done |-> FALSE, movie |-> movie[1], w |-> w]

\* Validated with the two steps swapped: the reference is resolved before
\* the weights are checked
Validated_ResolveFirst(r, w) ==
    LET res == Resolved(r, w)
        bad == Validate(w[1], w[2], w[3])
    IN  IF res.done THEN res
        ELSE IF bad # ""
             THEN Done(Error(400, "InvalidWeight", bad, "must be between 0 and 10"),
                       Trace(<<"convert", "resolve", "validate">>, <<w>>, <<>>, <<>>, <<>>))
             ELSE res

Validated(r, w) ==
    LET bad == Validate(w[1], w[2], w[3])
    IN  IF bad # ""
        THEN Done(Error(400, "InvalidWeight", bad, "must be between 0 and 10"),
                  Trace(<<"convert", "validate">>, <<w>>, <<>>, <<>>, <<>>))
        ELSE Resolved(r, w)

\* the handler up to the point where it turns to the executable
Handle(r) ==
    IF r.movie_name = <<>> /\ r.genre_weight = <<>> /\ r.rating_weight = <<>>
           /\ r.director_weight = <<>>
    THEN Done(Error(400, "NoData", "", "No JSON data provided"),
              Trace(<<>>, <<>>, <<>>, <<>>, <<>>))
    ELSE LET gw == IntOf(Get(r.genre_weight, Num(DefaultWeight, 0)))
             rw == IntOf(Get(r.rating_weight, Num(DefaultWeight, 0)))
             dw == IntOf(Get(r.director_weight, Num(DefaultWeight, 0)))
         IN  IF ~gw.ok \/ ~rw.ok \/ ~dw.ok
             THEN Done(Error(500, "ServerError", "", "Server error"),
                       Trace(<<"convert">>, <<>>, <<>>, <<>>, <<>>))
             ELSE Validated(r, <<gw.v, rw.v, dw.v>>)

recommend(r) ==
    /\ op = "idle"
    /\ op' = "recommend"
    /\ req' = r
    /\ LET h == Handle(r)
       IN  IF h.done
           THEN resp' = h.resp /\ run' = h.run
           ELSE \E env \in EngineEnvs :
                   LET l == Launch(h.movie, h.w, env)
                   IN  resp' = l.resp /\ run' = l.run
    /\ UNCHANGED <<movies, movie_by_id, movie_by_name, emitted, parsed>>

(***************************************************************************)
(* Inputs.                                                                 *)
(***************************************************************************)
Files(pool, n) == UNION {[1..k -> pool] : k \in 0..n}

Row(id, title, genre, rating, director) ==
    [id |-> id, title |-> title, genre |-> genre, rating |-> rating, director |-> director]

SearchRows ==
    {Row(<<"1">>, <<"A", "b">>, <<"g">>, <<"8", ".", "0">>, <<"d">>),
     Row(<<"2">>, <<"c">>, <<"g">>, <<"2", ".", "5">>, <<"d">>)}

SearchQueries == {<<>>, <<<<>>>>, <<<<" ">>>>, <<<<" ", "a", " ">>>>, <<<<"B">>>>}

Rows ==
    {Row(<<"1">>, <<"a", "b">>, <<"g">>, <<"8", ".", "0">>, <<"d">>),
     Row(<<"2">>, <<"a">>, <<"h">>, <<"2", ".", "5">>, <<"d">>),
     Row(<<"1">>, <<"A">>, <<"g">>, <<"7">>, <<"e">>),
     Row(<<"x">>, <<"b">>, <<"g">>, <<"8", ".", "0">>, <<"d">>)}

Names == {<<>>, <<<<"a">>>>, <<<<" ", "a">>>>, <<<<"B">>>>, <<<<"z">>>>}

WeightValues ==
    {<<>>, <<Num(0 - 1, 0)>>, <<Num(0, 0)>>, <<Num(10, 0)>>, <<Num(11, 0)>>,
     <<Num(35, 1)>>, <<Text(<<"x">>)>>}

Requests ==
    [movie_name : Names, genre_weight : WeightValues, rating_weight : WeightValues,
     director_weight : WeightValues]

InitCatalog ==
    /\ movies = <<>>
    /\ movie_by_id = EmptyDict
    /\ movie_by_name = EmptyDict
    /\ op = "idle"
    /\ req = Idle
    /\ resp = Idle
    /\ run = NoRun
    /\ emitted = <<>>
    /\ parsed = Idle

Init == InitCatalog

Next ==
    \/ \E file \in Files(Rows, MaxFileRows) : load_movies(file, MaxMovies)
    \/ \E name \in SearchQueries : search(name)
    \/ \E r \in Requests : recommend(r)
    \/ Deliver

Spec == Init /\ [][Next]_vars

NextSearch ==
    \/ \E file \in Files(SearchRows, MaxSearchFileRows) : load_movies(file, MaxSearchMovies)
    \/ \E name \in SearchQueries : search(name)
    \/ Deliver

SpecSearch == InitCatalog /\ [][NextSearch]_vars

(***************************************************************************)
(* The transport encoding on its own: a sequence of entries is emitted by  *)
(* the engine and parsed by the handler.                                   *)
(***************************************************************************)
Transport ==
    /\ parsed = Idle
    /\ parsed' = [kind |-> "parsed", out |-> ParseOutput(Encode(emitted))]
    /\ UNCHANGED <<movies, movie_by_id, movie_by_name, op, req, resp, run, emitted>>

Entries ==
    [id : {1, 12}, title : {<<"a">>, <<"a", ",", "b">>}, genre : {<<"g">>, <<"7">>},
     rating : {Num(8, 0).r, Num(25, 1).r}, director : {<<"d">>, <<"e">>}]

InitTransport ==
    /\ movies = <<>>
    /\ movie_by_id = EmptyDict
    /\ movie_by_name = EmptyDict
    /\ op = "idle"
    /\ req = Idle
    /\ resp = Idle
    /\ run = NoRun
    /\ emitted \in Files(Entries, MaxEmitted)
    /\ parsed = Idle

NextTransport == Transport

SpecTransport == InitTransport /\ [][NextTransport]_vars

(***************************************************************************)
(* Properties.                                                             *)
(***************************************************************************)

\* C7: the entries the engine emits, one line per entry with the fields
\* id,title,genre,rating,director separated by commas, are parsed back by
\* the handler as the same sequence of records: same length, same order and
\* the same five field values in each record.
C7_RoundTrip ==
    parsed # Idle => (parsed.out.ok /\ parsed.out.recs = emitted)

IsRecommend == op = "recommend"

IsSearch == op = "search"

Dims == {"genre", "rating", "director"}

\* the value the request carries for a dimension, as an optional value
Given(dim) ==
    IF dim = "genre" THEN req.genre_weight
    ELSE IF dim = "rating" THEN req.rating_weight
    ELSE req.director_weight

EmptyRequest == req.movie_name = <<>> /\ \A d \in Dims : Given(d) = <<>>

IsInteger(x) == x.kind = "num" /\ x.r.e = 0

\* a fractional number or text that is not a number
NonInteger(x) == (x.kind = "num" /\ x.r.e > 0) \/ (x.kind = "text" /\ ~ParseFloat(x.s).ok)

\* the integer a dimension's weight stands for (5 when the key is missing)
Value(dim) == IF Given(dim) = <<>> THEN 5 ELSE Given(dim)[1].r.m

IntegerWeights == \A d \in Dims : Given(d) # <<>> => IsInteger(Given(d)[1])

OutOfRange == {d \in Dims : Value(d) < 0 \/ Value(d) > 10}

\* the request passed the conversion and the validation of its weights
PassedValidation == resp.error \notin {"NoData", "ServerError", "InvalidWeight"}

Exact(n) == {i \in 1..Len(movies) : Lower(movies[i].title) = Lower(n)}

Partial(n) == {i \in 1..Len(movies) : Contains(Lower(n), Lower(movies[i].title))}

First(S) == CHOOSE i \in S : \A j \in S : i <= j

IsEntry(m) == \E i \in 1..Len(movies) : movies[i] = m

\* the resolution policy for the name n
Policy(n) ==
    IF Exact(n) # {}
    THEN run.movie # <<>> /\ IsEntry(run.movie[1]) /\ Lower(run.movie[1].title) = Lower(n)
    ELSE IF Partial(n) # {}
         THEN run.movie = <<movies[First(Partial(n))]>>
         ELSE resp.status = 404 /\ resp.error = "NotFound" /\ resp.recommendations = <<>>

\* C1 as stated: the reference is resolved from movie_name as given: an
\* entry whose title equals it case-insensitively, else the first entry in
\* load order whose title contains it case-insensitively, else NotFound (404).
C1_AsGiven ==
    (IsRecommend /\ PassedValidation) => Policy(Get(req.movie_name, <<>>))

\* C1 amended: the same policy holds for movie_name with its leading and
\* trailing whitespace removed, for every request whose weights pass
\* validation.
C1_Resolution ==
    (IsRecommend /\ PassedValidation) => Policy(Strip(Get(req.movie_name, <<>>)))

\* an exact match that is not the first partial match, found for a name that
\* was given with surrounding whitespace
C1_Witness ==
    /\ IsRecommend
    /\ PassedValidation
    /\ Strip(Get(req.movie_name, <<>>)) # Get(req.movie_name, <<>>)
    /\ run.movie # <<>>
    /\ run.movie[1] # movies[First(Partial(Strip(Get(req.movie_name, <<>>))))]

\* C2: with integer weights, a weight below 0 or above 10 makes the request
\* fail with InvalidWeight (400) naming a dimension that is out of range,
\* whatever the other weights and the reference; with all three weights in
\* [0,10] there is no InvalidWeight.
C2_InvalidWeight ==
    (IsRecommend /\ IntegerWeights /\ ~EmptyRequest) =>
        /\ OutOfRange # {} =>
              (resp.status = 400 /\ resp.error = "InvalidWeight" /\ resp.dim \in OutOfRange)
        /\ OutOfRange = {} => resp.error # "InvalidWeight"

\* only the rating weight is out of range, below 0, and the reference is unknown
C2_Witness ==
    /\ IsRecommend
    /\ IntegerWeights
    /\ OutOfRange = {"rating"}
    /\ Value("rating") < 0
    /\ Exact(Strip(Get(req.movie_name, <<>>))) \cup Partial(Strip(Get(req.movie_name, <<>>))) = {}
    /\ resp.error = "InvalidWeight"
    /\ resp.dim = "rating"

\* C3: a weight that is not an integer (a fractional number, text that is
\* not a number) makes the request fail with InvalidWeight naming a
\* dimension whose weight is not an integer.
C3_NonInteger ==
    (IsRecommend /\ \E d \in Dims : Given(d) # <<>> /\ NonInteger(Given(d)[1])) =>
        /\ resp.error = "InvalidWeight"
        /\ resp.dim \in {d \in Dims : Given(d) # <<>> /\ NonInteger(Given(d)[1])}

\* C4: with an empty catalogue a request with valid weights fails with an
\* EmptyCatalog error, which is neither NotFound nor a success.
C4_EmptyCatalog ==
    (IsRecommend /\ movies = <<>> /\ IntegerWeights /\ OutOfRange = {} /\ ~EmptyRequest) =>
        (resp.error = "EmptyCatalog" /\ resp.status # 404 /\ resp.status # 200)

Kth(S, k) == CHOOSE i \in S : Cardinality({j \in S : j <= i}) = k

\* C8: search returns the first min(10, m) of the m entries whose title
\* contains the trimmed query case-insensitively, in load order, and the
\* empty list for an empty or whitespace-only query.
C8_Search ==
    IsSearch =>
        LET q == Lower(Strip(Get(req.name, <<>>)))
            M == Partial(q)
            n == IF Cardinality(M) < 10 THEN Cardinality(M) ELSE 10
        IN  IF q = <<>> THEN resp.results = <<>>
            ELSE /\ Len(resp.results) = n
                 /\ \A k \in 1..n : resp.results[k] = movies[Kth(M, k)]

\* more than 10 entries match, of which one comes after a non-matching one
C8_Witness ==
    /\ IsSearch
    /\ Len(resp.results) = 10
    /\ Cardinality(Partial(Lower(Strip(Get(req.name, <<>>))))) > 10
    /\ \E i \in 1..10 : ~Contains(Lower(Strip(Get(req.name, <<>>))), Lower(movies[i].title))

\* C9: no two entries of movies share an id, and movie_by_id maps every id
\* to the one entry of movies with that id.
C9_UniqueIds ==
    /\ \A i, j \in 1..Len(movies) : i # j => movies[i].id # movies[j].id
    /\ \A i \in 1..Len(movies) :
          movies[i].id \in DOMAIN movie_by_id /\ movie_by_id[movies[i].id] = movies[i]

\* every weight of the request converts to an integer in [0,10]
WeightsInRange ==
    \A d \in Dims :
        LET x == IntOf(Get(Given(d), Num(5, 0))) IN x.ok /\ x.v >= 0 /\ x.v <= 10

WeightsConvert == \A d \in Dims : IntOf(Get(Given(d), Num(5, 0))).ok

Unresolvable ==
    Exact(Strip(Get(req.movie_name, <<>>))) \cup Partial(Strip(Get(req.movie_name, <<>>))) = {}

====
